---- MODULE Spec2Model ----
(***************************************************************************)
(* Model of Requester's RequestCommandMixin (core/__init__.py): the        *)
(* environment extractor (reset_env_string, reset_env_file), the           *)
(* environment evaluator (get_env), the pre-flight poll chain (run, _run), *)
(* the batch driver and gatherer (make_requests, gather_responses) and the *)
(* activity indicator.                                                     *)
(*                                                                         *)
(* Python strings are sequences of tokens (a token is one character or one *)
(* indivisible word), "\n" is the line break.  None is the reserved token  *)
(* sequence <<"None">>, which no modelled string equals.                   *)
(***************************************************************************)
EXTENDS Integers, Sequences, FiniteSets, TLC

VARIABLES
    text,        \* the buffer of the view: view.substr(Region(0, view.size()))
    file_name,   \* view.file_name(): the backing file of the buffer, or None
    settings,    \* view.settings(): requester.env_string, requester.env_file, flags
    files,       \* the file system: path -> source text of the files that exist
    sys_modules, \* sys.modules: module name -> namespace
    _env,        \* self._env
    dialogs,     \* the texts shown by sublime.error_message, oldest first
    requester_settings, \* Requester.sublime-settings: timeout_env when configured
    config,      \* self.config
    status,      \* the view's status 'requester.activity'
    inv,         \* per invocation of run: its evaluator thread, the value it computed,
                 \* the count of the poll that timed out (-1: none) and the
                 \* environments handed to make_requests (history)
    pool,        \* per invocation: the ResponseThreadPool made by make_requests
    timers,      \* the callbacks scheduled with sublime.set_timeout
    frame,       \* the handler running on the main thread and its locals
    log,         \* per invocation: the response callbacks invoked (history)
    hostRuns,    \* how often the host invokes the command
    request_list, \* what get_requests returns
    ind,         \* arguments and result of get_activity_indicator
    last         \* the operation that ran last (history)

viewVars == <<text, file_name, settings>>
envVars == <<files, sys_modules, _env, dialogs>>

runVars == <<requester_settings, config, status, inv, pool, timers, frame, log,
             hostRuns, request_list>>

vars == <<text, file_name, settings, files, sys_modules, _env, dialogs,
          requester_settings, config, status, inv, pool, timers, frame, log,
          hostRuns, request_list, ind, last>>

(***************************************************************************)
(* Bounds                                                                  *)
(***************************************************************************)
MaxLines == 3    \* lines in the buffer
MaxTick == 40    \* largest tick handed to the indicator
MaxSpaces == 9   \* largest indicator width
MaxStmts == 2    \* statements in an environment source
MaxRuns == 2     \* invocations of the command
MaxRequests == 3 \* requests of a batch
MaxEnvPolls == 5 \* pre-flight polls of a live thread when no timeout is configured
MaxPolls == 2    \* in-flight polls of a pool that is not done
MaxFairRequests == 2 \* requests of a batch under the fair specification

(***************************************************************************)
(* Python values                                                           *)
(***************************************************************************)
None == <<"None">>

\* truth value of a string or None: `if env_file:`, `if r.error`
Truthy(v) == v # None /\ v # <<>>

EmptyDict == [k \in {} |-> <<>>]

dict_get(d, k) == IF k \in DOMAIN d THEN d[k] ELSE None

dict_set(d, k, v) == [x \in DOMAIN d \cup {k} |-> IF x = k THEN v ELSE d[x]]

dict_del(d, k) == [x \in DOMAIN d \ {k} |-> d[x]]

\* the bindings already in a are kept
dict_update_keep(a, b) == [x \in DOMAIN a \cup DOMAIN b |-> IF x \in DOMAIN a THEN a[x] ELSE b[x]]

\* a.update(b): the bindings of b overwrite those of a
dict_update(a, b) == [x \in DOMAIN a \cup DOMAIN b |-> IF x \in DOMAIN b THEN b[x] ELSE a[x]]

\* None where a dict is expected, and an attribute that was never assigned
NoneEnv == [k \in {"<None>"} |-> None]
Unset == [k \in {"<unset>"} |-> None]

\* str.splitlines(): a trailing line break opens no empty last line
RECURSIVE splitlines_from(_, _, _)
splitlines_from(s, i, cur) ==
    IF i > Len(s) THEN (IF cur = <<>> THEN <<>> ELSE <<cur>>)
    ELSE IF s[i] = "\n" THEN <<cur>> \o splitlines_from(s, i + 1, <<>>)
    ELSE splitlines_from(s, i + 1, Append(cur, s[i]))

splitlines(s) == splitlines_from(s, 1, <<>>)

\* '\n'.join(lines)
RECURSIVE join(_)
join(lines) ==
    IF Len(lines) = 0 THEN <<>>
    ELSE IF Len(lines) = 1 THEN lines[1]
    ELSE lines[1] \o <<"\n">> \o join(Tail(lines))

\* ' ' * n
RECURSIVE repeat(_, _)
repeat(c, n) == IF n <= 0 THEN <<>> ELSE <<c>> \o repeat(c, n - 1)

(***************************************************************************)
(* exec of one assignment statement `name = expr`                          *)
(***************************************************************************)
Names == {"a", "b", "c", "env_file"}
Digits == {"1", "2", "3", "4"}

RECURSIVE skip_ws(_, _)
skip_ws(line, i) ==
    IF i <= Len(line) /\ line[i] = " " THEN skip_ws(line, i + 1) ELSE i

\* value of an expression: an integer literal, a quoted string literal;
\* anything else (an undefined name) raises
eval_expr(e) ==
    IF Len(e) = 1 /\ e[1] \in Digits THEN [raised |-> FALSE, value |-> e]
    ELSE IF Len(e) >= 2 /\ e[1] = "'" /\ e[Len(e)] = "'"
         THEN [raised |-> FALSE, value |-> SubSeq(e, 2, Len(e) - 1)]
    ELSE [raised |-> TRUE, value |-> None]

\* exec(line, scope): exec puts __builtins__ into the scope, then runs the
\* statement; a statement that starts with white space is an IndentationError
exec_stmt(line, scope) ==
    LET sc == dict_set(scope, "__builtins__", <<"builtins">>)
        j  == skip_ws(line, 2)
        k  == skip_ws(line, j + 1)
        v  == eval_expr(SubSeq(line, k, Len(line)))
    IN  IF Len(line) = 0 THEN [raised |-> FALSE, scope |-> sc]
        ELSE IF line[1] \in Names /\ j <= Len(line) /\ line[j] = "=" /\ ~v.raised
             THEN [raised |-> FALSE, scope |-> dict_set(sc, line[1], v.value)]
        ELSE [raised |-> TRUE, scope |-> sc]

(***************************************************************************)
(* os.path                                                                 *)
(***************************************************************************)
isabs(p) == Len(p) > 0 /\ p[1] = "/"

RECURSIVE rstrip_slash(_)
rstrip_slash(p) ==
    IF Len(p) > 0 /\ p[Len(p)] = "/" THEN rstrip_slash(SubSeq(p, 1, Len(p) - 1)) ELSE p

\* posixpath.dirname: the part up to the last "/", without trailing slashes
\* unless it is nothing but slashes
dirname(p) ==
    LET slashes == {i \in 1..Len(p) : p[i] = "/"}
        k == IF slashes = {} THEN 0 ELSE CHOOSE i \in slashes : \A j \in slashes : j <= i
        head == SubSeq(p, 1, k)
    IN  IF rstrip_slash(head) = <<>> THEN head ELSE rstrip_slash(head)

\* posixpath.join(a, b)
path_join(a, b) ==
    IF isabs(b) THEN b
    ELSE IF a = <<>> \/ a[Len(a)] = "/" THEN a \o b
    ELSE a \o <<"/">> \o b

(***************************************************************************)
(* EnvironmentExtractor                                                    *)
(***************************************************************************)
\* the test-view flag is not consulted
is_requester_view_response_only(s) ==
    IF s.response_view THEN TRUE
    ELSE FALSE

is_requester_view(s) ==
    IF s.response_view THEN TRUE
    ELSE IF s.test_view THEN TRUE
    ELSE FALSE

delimeter == <<"###env">>

\* the for loop of reset_env_string from line i on
RECURSIVE env_block_scan(_, _, _, _)
env_block_scan(lines, i, in_block, env_lines) ==
    IF i > Len(lines) THEN [in_block |-> in_block, env_lines |-> env_lines]
    ELSE IF in_block
         THEN IF lines[i] = delimeter
              THEN [in_block |-> FALSE, env_lines |-> env_lines]
              ELSE env_block_scan(lines, i + 1, TRUE, Append(env_lines, lines[i]))
    ELSE IF lines[i] = delimeter
         THEN env_block_scan(lines, i + 1, TRUE, env_lines)
         ELSE env_block_scan(lines, i + 1, FALSE, env_lines)

\* the settings after reset_env_string on buffer txt
reset_env_string(s, txt) ==
    IF is_requester_view(s) THEN s
    ELSE LET r  == env_block_scan(splitlines(txt), 1, FALSE, <<>>)
             s1 == IF Len(r.env_lines) = 0 \/ r.in_block
                   THEN [s EXCEPT !.env_string = None]
                   ELSE s
         IN  [s1 EXCEPT !.env_string = join(r.env_lines)]

\* re.compile('\s*env_file\s*=.*').match(line)
p_match(line) ==
    LET i == skip_ws(line, 1)
        j == skip_ws(line, i + 1)
    IN  i <= Len(line) /\ line[i] = "env_file" /\ j <= Len(line) /\ line[j] = "="

\* a matching line that raises does not end the scan
RECURSIVE env_file_scan_retry(_, _, _)
env_file_scan_retry(lines, i, scope) ==
    IF i > Len(lines) THEN scope
    ELSE IF p_match(lines[i]) /\ ~exec_stmt(lines[i], scope).raised
         THEN exec_stmt(lines[i], scope).scope
    ELSE env_file_scan_retry(lines, i + 1, scope)

\* the for loop of reset_env_file from line i on: the scope after it
RECURSIVE env_file_scan(_, _, _)
env_file_scan(lines, i, scope) ==
    IF i > Len(lines) THEN scope
    ELSE IF p_match(lines[i])
         THEN exec_stmt(lines[i], scope).scope
    ELSE env_file_scan(lines, i + 1, scope)

\* the settings after reset_env_file on buffer txt with backing file fname
reset_env_file(s, txt, fname) ==
    IF is_requester_view(s) THEN s
    ELSE LET scope    == env_file_scan(splitlines(txt), 1, EmptyDict)
             env_file == dict_get(scope, "env_file")
         IN  IF Truthy(env_file)
             THEN IF isabs(env_file)
                  THEN [s EXCEPT !.env_file = env_file]
                  ELSE IF Truthy(fname)
                       THEN [s EXCEPT !.env_file = path_join(dirname(fname), env_file)]
                       ELSE s
             ELSE [s EXCEPT !.env_file = None]


(***************************************************************************)
(* EnvironmentEvaluator                                                    *)
(***************************************************************************)
\* exec(source, namespace): the statements of the source in order, stopping
\* at the first that raises
RECURSIVE exec_lines(_, _, _)
exec_lines(lines, i, ns) ==
    IF i > Len(lines) THEN [raised |-> FALSE, scope |-> ns]
    ELSE LET x == exec_stmt(lines[i], ns)
         IN  IF x.raised THEN x ELSE exec_lines(lines, i + 1, x.scope)

exec_source(src, ns) ==
    exec_lines(splitlines(src), 1, dict_set(ns, "__builtins__", <<"builtins">>))

\* imp.new_module('requester.env').__dict__
new_module == dict_set(dict_set(EmptyDict, "__name__", <<"requester.env">>), "__doc__", None)

\* imp.load_source(name, path): runs the file in the module registered under
\* name, or in a new one, and registers it
load_source(name, path, fs, mods) ==
    IF path \notin DOMAIN fs THEN [raised |-> TRUE, module |-> EmptyDict, mods |-> mods]
    ELSE LET base == IF name \in DOMAIN mods THEN mods[name] ELSE new_module
             x    == exec_source(fs[path], dict_set(base, "__file__", path))
         IN  IF x.raised THEN [raised |-> TRUE, module |-> EmptyDict, mods |-> mods]
             ELSE [raised |-> FALSE, module |-> x.scope, mods |-> dict_set(mods, name, x.scope)]

EnvBlockError == <<"EnvBlock Error:", "\n", "exception">>
EnvFileError == <<"EnvFile Error:", "\n", "exception">>

\* a failing inline source ends the evaluation
get_env_abort(s, fs, mods) ==
    LET mods1      == dict_del(mods, "requester.env")
        env_string == s.env_string
        inl        == exec_source(env_string, new_module)
        env_dict1  == IF Truthy(env_string) /\ ~inl.raised THEN inl.scope ELSE EmptyDict
        env_file   == s.env_file
        ld         == load_source("requester.env", env_file, fs, mods1)
        env_dict2  == IF Truthy(env_file) /\ ~ld.raised
                      THEN dict_update(env_dict1, ld.module)
                      ELSE env_dict1
        errors2    == IF Truthy(env_file) /\ ld.raised THEN <<EnvFileError>> ELSE <<>>
    IN  IF Truthy(env_string) /\ inl.raised
        THEN [ret |-> NoneEnv, errors |-> <<EnvBlockError>>, sys_modules |-> mods1]
        ELSE [ret         |-> IF env_dict2 = EmptyDict THEN NoneEnv ELSE env_dict2,
              errors      |-> errors2,
              sys_modules |-> IF Truthy(env_file) THEN ld.mods ELSE mods1]

\* the empty mapping is returned as it is
get_env_noconv(s, fs, mods) ==
    LET mods1      == dict_del(mods, "requester.env")
        env_string == s.env_string
        inl        == exec_source(env_string, new_module)
        env_dict1  == IF Truthy(env_string) /\ ~inl.raised THEN inl.scope ELSE EmptyDict
        errors1    == IF Truthy(env_string) /\ inl.raised THEN <<EnvBlockError>> ELSE <<>>
        env_file   == s.env_file
        ld         == load_source("requester.env", env_file, fs, mods1)
        env_dict2  == IF Truthy(env_file) /\ ~ld.raised
                      THEN dict_update(env_dict1, ld.module)
                      ELSE env_dict1
        errors2    == IF Truthy(env_file) /\ ld.raised THEN <<EnvFileError>> ELSE <<>>
    IN  [ret         |-> env_dict2,
         errors      |-> errors1 \o errors2,
         sys_modules |-> IF Truthy(env_file) THEN ld.mods ELSE mods1]

\* get_env: the value returned, the error messages shown, sys.modules after
get_env(s, fs, mods) ==
    LET mods1      == dict_del(mods, "requester.env")
        env_string == s.env_string
        inl        == exec_source(env_string, new_module)
        env_dict1  == IF Truthy(env_string) /\ ~inl.raised THEN inl.scope ELSE EmptyDict
        errors1    == IF Truthy(env_string) /\ inl.raised THEN <<EnvBlockError>> ELSE <<>>
        env_file   == s.env_file
        ld         == load_source("requester.env", env_file, fs, mods1)
        env_dict2  == IF Truthy(env_file) /\ ~ld.raised
                      THEN dict_update(env_dict1, ld.module)
                      ELSE env_dict1
        errors2    == IF Truthy(env_file) /\ ld.raised THEN <<EnvFileError>> ELSE <<>>
    IN  [ret         |-> IF env_dict2 = EmptyDict THEN NoneEnv ELSE env_dict2,
         errors      |-> errors1 \o errors2,
         sys_modules |-> IF Truthy(env_file) THEN ld.mods ELSE mods1]

(***************************************************************************)
(* ActivityIndicator                                                       *)
(***************************************************************************)
ACTIVITY_SPACES == 9

\* the sweep never turns back
get_activity_indicator_noturn(count, spaces) ==
    LET before == count % spaces
        after  == spaces - before
    IN  <<"[">> \o repeat(" ", before) \o <<"=">> \o repeat(" ", after) \o <<"]">>

get_activity_indicator(count, spaces) ==
    LET cycle  == count \div spaces
        before == IF cycle % 2 = 0 THEN count % spaces ELSE spaces - (count % spaces)
        after  == spaces - before
    IN  <<"[">> \o repeat(" ", before) \o <<"=">> \o repeat(" ", after) \o <<"]">>

(***************************************************************************)
(* Inputs                                                                  *)
(***************************************************************************)
ContentLine == <<"a", "=", "1">>
DirAbs == <<"env_file", "=", "'", "/", "env", "/", "e.py", "'">>
DirRel == <<"env_file", "=", "'", "e.py", "'">>
DirBad == <<"env_file", "=", "nope">>

BufferLines == {delimeter, ContentLine, DirAbs, DirRel, DirBad}

BackingFile == <<"/", "proj", "/", "r.http">>

FileNames == {None, BackingFile}

NoSettings ==
    [env_string |-> None, env_file |-> None, response_view |-> FALSE, test_view |-> FALSE]

NoInd == [count |-> 0, spaces |-> 1, out |-> None]

EnvPath == <<"/", "env", "/", "e.py">>

NoFiles == [p \in {} |-> <<>>]

RaiseLine == <<"raise">>

Statements ==
    {<<"a", "=", "1">>, <<"b", "=", "2">>, <<"b", "=", "3">>, <<"c", "=", "4">>, RaiseLine}

\* the sources of at most MaxStmts statements
Sources == {join(q) : q \in UNION {[1..n -> Statements] : n \in 0..MaxStmts}}

NoEnvState ==
    /\ files = NoFiles
    /\ sys_modules = EmptyDict
    /\ _env = Unset
    /\ dialogs = <<>>

Runs == 1..MaxRuns

NoThread == [thread |-> "unstarted", evaluated |-> FALSE, ret |-> Unset,
             timeout_at |-> -1, made |-> <<>>]

NoPool == [phase |-> "none", requests |-> <<>>, env |-> Unset, max_workers |-> 0,
           pending |-> {}, responses |-> <<>>, is_done |-> FALSE]

\* responses=None, the default argument of gather_responses
NoneList == <<[none |-> TRUE]>>

NoFrame == [fn |-> "idle", run |-> 0, count |-> 0, pc |-> "", responses |-> NoneList,
            is_done |-> FALSE, shown |-> {}, done_at_start |-> FALSE]

\* no command has run
NoRunState ==
    /\ requester_settings = EmptyDict
    /\ config = Unset
    /\ status = <<>>
    /\ inv = [i \in Runs |-> NoThread]
    /\ pool = [i \in Runs |-> NoPool]
    /\ timers = {}
    /\ frame = NoFrame
    /\ log = [i \in Runs |-> <<>>]
    /\ hostRuns = 0
    /\ request_list = <<>>

(***************************************************************************)
(* AsyncEnvironmentRunner, RequestBatchDriver, ResponseGatherer            *)
(***************************************************************************)
REFRESH_MS == 200
REFRESH_MULTIPLIER == 4
MAX_WORKERS == 10

TimeoutError == <<"Timeout Error: environment took too long to parse">>

RequestNames == <<"r1", "r2", "r3", "r4", "r5", "r6">>

\* the list of the first n requests
Requests(n) == [k \in 1..n |-> <<RequestNames[k]>>]

RunTimer(i, count) ==
    [fn |-> "_run", run |-> i, count |-> count, responses |-> NoneList]

\* the tick count is not carried on
GatherTimer_restart(i, count, responses) ==
    [fn |-> "gather_responses", run |-> i, count |-> 0, responses |-> responses]

GatherTimer(i, count, responses) ==
    [fn |-> "gather_responses", run |-> i, count |-> count, responses |-> responses]

\* ResponseThreadPool(requests, env, max_workers), not yet run
new_pool(requests, env, max_workers) ==
    [phase |-> "queued", requests |-> requests, env |-> env, max_workers |-> max_workers,
     pending |-> 1..Len(requests), responses |-> <<>>, is_done |-> FALSE]

get_requests == request_list

\* the pre-flight poll chain goes on besides the first tick
make_requests_andpoll(i, requests, env, fired) ==
    /\ pool' = [pool EXCEPT ![i] = new_pool(requests, env, MAX_WORKERS)]
    /\ timers' = (timers \ fired) \cup {GatherTimer(i, 0, NoneList), RunTimer(i, 1)}

\* make_requests: a new pool, its run queued on the async thread, and the
\* first gather_responses tick scheduled
make_requests(i, requests, env, fired) ==
    /\ pool' = [pool EXCEPT ![i] = new_pool(requests, env, MAX_WORKERS)]
    /\ timers' = (timers \ fired) \cup {GatherTimer(i, 0, NoneList)}

\* the indicator is shown on the first poll too
_run_showfirst(i, count, fired) ==
    LET activity == get_activity_indicator(count \div REFRESH_MULTIPLIER, ACTIVITY_SPACES)
        shown    == <<"RequesterEnv", " ">> \o activity
    IN  IF inv[i].thread = "alive"
        THEN IF /\ "timeout_env" \in DOMAIN config
                /\ count * REFRESH_MS > config["timeout_env"] * 1000 * REFRESH_MULTIPLIER
             THEN /\ dialogs' = Append(dialogs, TimeoutError)
                  /\ status' = <<>>
                  /\ inv' = [inv EXCEPT ![i].timeout_at = count]
                  /\ timers' = timers \ fired
                  /\ UNCHANGED pool
             ELSE /\ status' = shown
                  /\ timers' = (timers \ fired) \cup {RunTimer(i, count + 1)}
                  /\ UNCHANGED <<dialogs, pool, inv>>
        ELSE /\ status' = <<>>
             /\ inv' = [inv EXCEPT ![i].made = Append(@, _env)]
             /\ make_requests(i, get_requests, _env, fired)
             /\ UNCHANGED dialogs

\* the comparison with the deadline is not strict
_run_nonstrict(i, count, fired) ==
    LET activity == get_activity_indicator(count \div REFRESH_MULTIPLIER, ACTIVITY_SPACES)
        shown    == IF count > 0 THEN <<"RequesterEnv", " ">> \o activity ELSE status
    IN  IF inv[i].thread = "alive"
        THEN IF /\ "timeout_env" \in DOMAIN config
                \* count * REFRESH_MS / REFRESH_MULTIPLIER > timeout * 1000, in integers
                /\ count * REFRESH_MS >= config["timeout_env"] * 1000 * REFRESH_MULTIPLIER
             THEN /\ dialogs' = Append(dialogs, TimeoutError)
                  /\ status' = <<>>
                  /\ inv' = [inv EXCEPT ![i].timeout_at = count]
                  /\ timers' = timers \ fired
                  /\ UNCHANGED pool
             ELSE /\ status' = shown
                  /\ timers' = (timers \ fired) \cup {RunTimer(i, count + 1)}
                  /\ UNCHANGED <<dialogs, pool, inv>>
        ELSE /\ status' = <<>>
             /\ inv' = [inv EXCEPT ![i].made = Append(@, _env)]
             /\ make_requests(i, get_requests, _env, fired)
             /\ UNCHANGED dialogs

\* the timeout branch does not return: the next poll is scheduled
_run_noreturn(i, count, fired) ==
    LET activity == get_activity_indicator(count \div REFRESH_MULTIPLIER, ACTIVITY_SPACES)
        shown    == IF count > 0 THEN <<"RequesterEnv", " ">> \o activity ELSE status
    IN  IF inv[i].thread = "alive"
        THEN IF /\ "timeout_env" \in DOMAIN config
                \* count * REFRESH_MS / REFRESH_MULTIPLIER > timeout * 1000, in integers
                /\ count * REFRESH_MS > config["timeout_env"] * 1000 * REFRESH_MULTIPLIER
             THEN /\ dialogs' = Append(dialogs, TimeoutError)
                  /\ status' = <<>>
                  /\ inv' = [inv EXCEPT ![i].timeout_at = count]
                  /\ timers' = (timers \ fired) \cup {RunTimer(i, count + 1)}
                  /\ UNCHANGED pool
             ELSE /\ status' = shown
                  /\ timers' = (timers \ fired) \cup {RunTimer(i, count + 1)}
                  /\ UNCHANGED <<dialogs, pool, inv>>
        ELSE /\ status' = <<>>
             /\ inv' = [inv EXCEPT ![i].made = Append(@, _env)]
             /\ make_requests(i, get_requests, _env, fired)
             /\ UNCHANGED dialogs

\* the body of _run(thread, count) for invocation i; `fired` is the timer
\* that called it, if any
_run(i, count, fired) ==
    LET activity == get_activity_indicator(count \div REFRESH_MULTIPLIER, ACTIVITY_SPACES)
        shown    == IF count > 0 THEN <<"RequesterEnv", " ">> \o activity ELSE status
    IN  IF inv[i].thread = "alive"
        THEN IF /\ "timeout_env" \in DOMAIN config
                \* count * REFRESH_MS / REFRESH_MULTIPLIER > timeout * 1000, in integers
                /\ count * REFRESH_MS > config["timeout_env"] * 1000 * REFRESH_MULTIPLIER
             THEN /\ dialogs' = Append(dialogs, TimeoutError)
                  /\ status' = <<>>
                  /\ inv' = [inv EXCEPT ![i].timeout_at = count]
                  /\ timers' = timers \ fired
                  /\ UNCHANGED pool
             ELSE /\ status' = shown
                  /\ timers' = (timers \ fired) \cup {RunTimer(i, count + 1)}
                  /\ UNCHANGED <<dialogs, pool, inv>>
        ELSE /\ status' = <<>>
             /\ inv' = [inv EXCEPT ![i].made = Append(@, _env)]
             /\ make_requests(i, get_requests, _env, fired)
             /\ UNCHANGED dialogs

\* invocation j has no callback scheduled and no batch in flight; its
\* evaluator thread may still run
Ended(j) ==
    /\ inv[j].thread # "unstarted"
    /\ \A t \in timers : t.run # j
    /\ frame.run # j
    /\ pool[j].phase \in {"none", "done"}

\* run(edit) up to thread.start(); the call self._run(thread) follows as the
\* next step of the main thread.  The host invokes the command again once
\* the invocation before has ended.
Run(i) ==
    /\ frame = NoFrame
    /\ i <= hostRuns
    /\ inv[i].thread = "unstarted"
    /\ \A j \in 1..(i - 1) : Ended(j)
    /\ config' = requester_settings
    /\ settings' = reset_env_file(reset_env_string(settings, text), text, file_name)
    /\ inv' = [inv EXCEPT ![i].thread = "alive"]
    /\ frame' = [NoFrame EXCEPT !.fn = "_run", !.run = i, !.count = 0]
    /\ UNCHANGED <<text, file_name, envVars, requester_settings, status, pool, timers,
                   log, hostRuns, request_list, ind, last>>

\* self._run(thread), the first poll, called by run
RunFirstPoll ==
    /\ frame.fn = "_run"
    /\ _run(frame.run, frame.count, {})
    /\ frame' = NoFrame
    /\ UNCHANGED <<viewVars, files, sys_modules, _env, requester_settings, config, log,
                   hostRuns, request_list, ind, last>>

\* a scheduled _run(thread, count) fires
RunPoll(t) ==
    /\ frame = NoFrame
    /\ t \in timers /\ t.fn = "_run"
    /\ \/ t.count <= MaxEnvPolls
       \/ inv[t.run].thread = "dead"
       \/ "timeout_env" \in DOMAIN config
    /\ _run(t.run, t.count, {t})
    /\ UNCHANGED <<viewVars, files, sys_modules, _env, requester_settings, config, frame,
                   log, hostRuns, request_list, ind, last>>

\* the evaluator thread calls get_env
ThreadEval(i) ==
    /\ inv[i].thread = "alive" /\ ~inv[i].evaluated
    /\ LET r == get_env(settings, files, sys_modules)
       IN  /\ inv' = [inv EXCEPT ![i].evaluated = TRUE, ![i].ret = r.ret]
           /\ dialogs' = dialogs \o r.errors
           /\ sys_modules' = r.sys_modules
    /\ UNCHANGED <<viewVars, files, _env, requester_settings, config, status, pool, timers,
                   frame, log, hostRuns, request_list, ind, last>>

\* the evaluator thread assigns self._env and ends
ThreadReturn(i) ==
    /\ inv[i].thread = "alive" /\ inv[i].evaluated
    /\ _env' = inv[i].ret
    /\ inv' = [inv EXCEPT ![i].thread = "dead"]
    /\ UNCHANGED <<viewVars, files, sys_modules, dialogs, requester_settings, config, status,
                   pool, timers, frame, log, hostRuns, request_list, ind, last>>

(***************************************************************************)
(* The worker pool (core/responses.py), at its interface: one record per   *)
(* request, appended in completion order; is_done is set after the last    *)
(* append.                                                                 *)
(***************************************************************************)
Response(request, ordering, failed) ==
    [request  |-> request,
     response |-> IF failed THEN None ELSE <<"200">>,
     error    |-> IF failed THEN <<"Connection Error">> ELSE None,
     ordering |-> ordering]

\* pool.run() starts on the async thread
PoolRun(i) ==
    /\ pool[i].phase = "queued"
    /\ pool' = [pool EXCEPT ![i].phase = "running"]
    /\ UNCHANGED <<viewVars, envVars, requester_settings, config, status, inv, timers, frame,
                   log, hostRuns, request_list, ind, last>>

\* request k of the pool completes, with an error or without
PoolComplete(i, k, failed) ==
    /\ pool[i].phase = "running"
    /\ k \in pool[i].pending
    /\ pool' = [pool EXCEPT ![i].pending = @ \ {k},
                            ![i].responses =
                                Append(@, Response(pool[i].requests[k], k - 1, failed))]
    /\ UNCHANGED <<viewVars, envVars, requester_settings, config, status, inv, timers, frame,
                   log, hostRuns, request_list, ind, last>>

\* all requests have completed: pool.is_done = True
PoolDone(i) ==
    /\ pool[i].phase = "running"
    /\ pool[i].pending = {}
    /\ pool' = [pool EXCEPT ![i].phase = "done", ![i].is_done = TRUE]
    /\ UNCHANGED <<viewVars, envVars, requester_settings, config, status, inv, timers, frame,
                   log, hostRuns, request_list, ind, last>>

num_requests(p) == Len(p.requests)

(***************************************************************************)
(* gather_responses, one tick in four steps of the main thread             *)
(***************************************************************************)
NoResponse == [request |-> <<>>, response |-> None, error |-> None, ordering |-> -1]

Call(fn, r, rs, n) == [fn |-> fn, r |-> r, rs |-> rs, n |-> n]

\* responses.sort(key=lambda response: response.ordering): a stable sort
RECURSIVE insert_by_ordering(_, _)
insert_by_ordering(sorted, r) ==
    IF sorted = <<>> THEN <<r>>
    ELSE IF sorted[Len(sorted)].ordering <= r.ordering THEN Append(sorted, r)
    ELSE Append(insert_by_ordering(SubSeq(sorted, 1, Len(sorted) - 1), r), sorted[Len(sorted)])

\* the list is left in arrival order
sort_by_ordering_unsorted(rs) == rs

RECURSIVE sort_by_ordering(_)
sort_by_ordering(rs) ==
    IF rs = <<>> THEN <<>>
    ELSE insert_by_ordering(sort_by_ordering(SubSeq(rs, 1, Len(rs) - 1)), rs[Len(rs)])

\* sep.join(strings)
RECURSIVE join_with(_, _)
join_with(sep, strings) ==
    IF Len(strings) = 0 THEN <<>>
    ELSE IF Len(strings) = 1 THEN strings[1]
    ELSE strings[1] \o sep \o join_with(sep, Tail(strings))

HasError(r) == Truthy(r.error)

\* every record is reported
handle_errors_all(responses) ==
    LET errors == [k \in 1..Len(responses) |->
                      responses[k].request \o <<"\n">> \o responses[k].error]
    IN  IF Len(errors) > 0 THEN <<join_with(<<"\n", "\n">>, errors)>> ELSE <<>>

\* handle_errors: the error messages it shows (one or none)
handle_errors(responses) ==
    LET failed == SelectSeq(responses, HasError)
        errors == [k \in 1..Len(failed) |-> failed[k].request \o <<"\n">> \o failed[k].error]
    IN  IF Len(errors) > 0 THEN <<join_with(<<"\n", "\n">>, errors)>> ELSE <<>>

\* line 217: _show_activity_for_pending_requests(pool.pending_requests, count)
GatherShow(t) ==
    /\ frame = NoFrame
    /\ t \in timers /\ t.fn = "gather_responses"
    /\ t.count < MaxPolls \/ pool[t.run].is_done
    /\ timers' = timers \ {t}
    /\ status' = <<"Requester", " ">> \o get_activity_indicator(t.count, ACTIVITY_SPACES)
    /\ frame' = [NoFrame EXCEPT !.fn = "gather_responses", !.run = t.run, !.count = t.count,
                                !.pc = "is_done", !.responses = t.responses,
                                !.shown = pool[t.run].pending,
                                !.done_at_start = pool[t.run].is_done]
    /\ UNCHANGED <<viewVars, envVars, requester_settings, config, inv, pool, log, hostRuns,
                   request_list, ind, last>>

\* lines 218-221: is_done = pool.is_done; responses = [] when None
GatherCache ==
    /\ frame.fn = "gather_responses" /\ frame.pc = "is_done"
    /\ frame' = [frame EXCEPT !.is_done = pool[frame.run].is_done,
                              !.responses = IF @ = NoneList THEN <<>> ELSE @,
                              !.pc = "drain"]
    /\ UNCHANGED <<viewVars, envVars, requester_settings, config, status, inv, pool, timers,
                   log, hostRuns, request_list, ind, last>>

\* the drain takes the record that arrived last
GatherDrain_lifo ==
    /\ frame.fn = "gather_responses" /\ frame.pc = "drain"
    /\ Len(pool[frame.run].responses) > 0
    /\ LET i == frame.run
           m == Len(pool[i].responses)
           r == pool[i].responses[m]
           n == num_requests(pool[i])
       IN  /\ pool' = [pool EXCEPT ![i].responses = SubSeq(@, 1, m - 1)]
           /\ frame' = [frame EXCEPT !.responses = Append(@, r)]
           /\ log' = [log EXCEPT ![i] = @ \o <<Call("handle_response", r, <<>>, n),
                                               Call("handle_error", r, <<>>, n)>>]
    /\ UNCHANGED <<viewVars, envVars, requester_settings, config, status, inv, timers,
                   hostRuns, request_list, ind, last>>

\* lines 223-227: one iteration of the drain loop
GatherDrain ==
    /\ frame.fn = "gather_responses" /\ frame.pc = "drain"
    /\ Len(pool[frame.run].responses) > 0
    /\ LET i == frame.run
           r == Head(pool[i].responses)
           n == num_requests(pool[i])
       IN  /\ pool' = [pool EXCEPT ![i].responses = Tail(@)]
           /\ frame' = [frame EXCEPT !.responses = Append(@, r)]
           /\ log' = [log EXCEPT ![i] = @ \o <<Call("handle_response", r, <<>>, n),
                                               Call("handle_error", r, <<>>, n)>>]
    /\ UNCHANGED <<viewVars, envVars, requester_settings, config, status, inv, timers,
                   hostRuns, request_list, ind, last>>

\* the done flag is read after the drain
GatherFinish_late ==
    /\ frame.fn = "gather_responses" /\ frame.pc = "drain"
    /\ Len(pool[frame.run].responses) = 0
    /\ LET i == frame.run
           responses == sort_by_ordering(frame.responses)
       IN  IF pool[i].is_done
           THEN /\ log' = [log EXCEPT ![i] = @ \o <<Call("handle_responses", NoResponse, responses, 0),
                                                    Call("handle_errors", NoResponse, responses, 0)>>]
                /\ dialogs' = dialogs \o handle_errors(responses)
                /\ status' = <<>>
                /\ UNCHANGED timers
           ELSE /\ timers' = timers \cup {GatherTimer(i, frame.count + 1, frame.responses)}
                /\ UNCHANGED <<log, dialogs, status>>
    /\ frame' = NoFrame
    /\ UNCHANGED <<viewVars, files, sys_modules, _env, requester_settings, config, inv, pool,
                   hostRuns, request_list, ind, last>>

\* lines 229-236: the pool's completed list is empty; finish or reschedule
GatherFinish ==
    /\ frame.fn = "gather_responses" /\ frame.pc = "drain"
    /\ Len(pool[frame.run].responses) = 0
    /\ LET i == frame.run
           responses == sort_by_ordering(frame.responses)
       IN  IF frame.is_done
           THEN /\ log' = [log EXCEPT ![i] = @ \o <<Call("handle_responses", NoResponse, responses, 0),
                                                    Call("handle_errors", NoResponse, responses, 0)>>]
                /\ dialogs' = dialogs \o handle_errors(responses)
                /\ status' = <<>>
                /\ UNCHANGED timers
           ELSE /\ timers' = timers \cup {GatherTimer(i, frame.count + 1, frame.responses)}
                /\ UNCHANGED <<log, dialogs, status>>
    /\ frame' = NoFrame
    /\ UNCHANGED <<viewVars, files, sys_modules, _env, requester_settings, config, inv, pool,
                   hostRuns, request_list, ind, last>>

(***************************************************************************)
(* The command invoked on an edited buffer                                 *)
(***************************************************************************)
TextBlock == delimeter \o <<"\n">> \o ContentLine \o <<"\n">> \o delimeter \o <<"\n">>
TextFile == DirAbs \o <<"\n">>

RunTexts == {TextBlock, TextFile}

\* RequesterReplaceViewTextCommand.run(edit, text), while the host has an
\* invocation of the command to come
ReplaceViewText(txt) ==
    /\ frame = NoFrame
    /\ \E i \in 1..hostRuns : inv[i].thread = "unstarted"
    /\ text # txt
    /\ text' = txt
    /\ UNCHANGED <<file_name, settings, envVars, runVars, ind, last>>

InitCommand(runs, maxRequests, timeouts) ==
    /\ text = TextBlock
    /\ file_name = BackingFile
    /\ settings = NoSettings
    /\ files = [p \in {EnvPath} |-> <<"b", "=", "3", "\n", "c", "=", "4">>]
    /\ sys_modules = EmptyDict
    /\ _env = Unset
    /\ dialogs = <<>>
    /\ requester_settings \in {EmptyDict} \cup {[k \in {"timeout_env"} |-> t] : t \in timeouts}
    /\ config = Unset
    /\ status = <<>>
    /\ inv = [i \in Runs |-> NoThread]
    /\ pool = [i \in Runs |-> NoPool]
    /\ timers = {}
    /\ frame = NoFrame
    /\ log = [i \in Runs |-> <<>>]
    /\ hostRuns = runs
    /\ request_list \in {Requests(n) : n \in 0..maxRequests}
    /\ ind = NoInd
    /\ last = "init"

NextCommand ==
    \/ \E txt \in RunTexts : ReplaceViewText(txt)
    \/ \E i \in Runs : Run(i)
    \/ RunFirstPoll
    \/ \E t \in timers : RunPoll(t)
    \/ \E i \in Runs : ThreadEval(i)
    \/ \E i \in Runs : ThreadReturn(i)
    \/ \E i \in Runs : PoolRun(i)
    \/ \E i \in Runs : \E k \in 1..MaxRequests, failed \in BOOLEAN : PoolComplete(i, k, failed)
    \/ \E i \in Runs : PoolDone(i)
    \/ \E t \in timers : GatherShow(t)
    \/ GatherCache
    \/ GatherDrain
    \/ GatherFinish

\* repeated invocations with short batches
InitRun == InitCommand(MaxRuns, 1, {0})

SpecRun == InitRun /\ [][NextCommand]_vars

\* one invocation with batches of up to MaxRequests requests
InitGather == InitCommand(1, MaxRequests, {1})

SpecGather == InitGather /\ [][NextCommand]_vars

\* the host's main thread runs a due timer callback, and a callback that has
\* started runs to its end
GatherFairness ==
    /\ WF_vars(\E t \in timers : GatherShow(t))
    /\ WF_vars(GatherCache)
    /\ WF_vars(GatherDrain)
    /\ WF_vars(GatherFinish)

\* one invocation without timeout_env
InitGatherFair == InitCommand(1, MaxFairRequests, {})

SpecGatherFair == InitGatherFair /\ [][NextCommand]_vars /\ GatherFairness

(***************************************************************************)
(* The extractor on an edited buffer                                       *)
(***************************************************************************)
InitExtract ==
    /\ text = <<>>
    /\ file_name \in FileNames
    /\ \E rv \in BOOLEAN, tv \in BOOLEAN :
          settings = [NoSettings EXCEPT !.response_view = rv, !.test_view = tv]
    /\ ind = NoInd
    /\ NoEnvState
    /\ NoRunState
    /\ last = "init"

\* view.erase(edit, Region(0, view.size()))
ViewErase ==
    /\ text # <<>>
    /\ text' = <<>>
    /\ last' = "erase"
    /\ UNCHANGED <<file_name, settings, ind, envVars, runVars>>

\* view.insert(edit, 0, line + "\n")
ViewInsert ==
    /\ Len(splitlines(text)) < MaxLines
    /\ \E l \in BufferLines : text' = l \o <<"\n">> \o text
    /\ last' = "insert"
    /\ UNCHANGED <<file_name, settings, ind, envVars, runVars>>

ResetEnvString ==
    /\ settings' = reset_env_string(settings, text)
    /\ last' = "reset_env_string"
    /\ UNCHANGED <<text, file_name, ind, envVars, runVars>>

ResetEnvFile ==
    /\ settings' = reset_env_file(settings, text, file_name)
    /\ last' = "reset_env_file"
    /\ UNCHANGED <<text, file_name, ind, envVars, runVars>>

NextExtract == ViewErase \/ ViewInsert \/ ResetEnvString \/ ResetEnvFile

SpecExtract == InitExtract /\ [][NextExtract]_vars

(***************************************************************************)
(* The indicator on every tick and width                                   *)
(***************************************************************************)
InitIndicator ==
    /\ text = <<>>
    /\ file_name = None
    /\ settings = NoSettings
    /\ ind \in [count : 0..MaxTick, spaces : 1..MaxSpaces, out : {None}]
    /\ NoEnvState
    /\ NoRunState
    /\ last = "init"

Render ==
    /\ ind.out = None
    /\ ind' = [ind EXCEPT !.out = get_activity_indicator(ind.count, ind.spaces)]
    /\ last' = "get_activity_indicator"
    /\ UNCHANGED <<viewVars, envVars, runVars>>

NextIndicator == Render

SpecIndicator == InitIndicator /\ [][NextIndicator]_vars

(***************************************************************************)
(* The evaluator on every pair of sources                                  *)
(***************************************************************************)
InitGetEnv ==
    /\ text = <<>>
    /\ file_name = None
    /\ \E es \in Sources \cup {None}, ef \in {None, EnvPath} :
          settings = [NoSettings EXCEPT !.env_string = es, !.env_file = ef]
    /\ \E src \in Sources \cup {None} :
          files = IF src = None THEN NoFiles ELSE [p \in {EnvPath} |-> src]
    /\ sys_modules = EmptyDict
    /\ _env = Unset
    /\ dialogs = <<>>
    /\ NoRunState
    /\ ind = NoInd
    /\ last = "init"

\* _get_env run to its end: self._env = self.get_env()
GetEnv ==
    /\ last = "init"
    /\ LET r == get_env(settings, files, sys_modules)
       IN  /\ _env' = r.ret
           /\ dialogs' = dialogs \o r.errors
           /\ sys_modules' = r.sys_modules
    /\ last' = "get_env"
    /\ UNCHANGED <<viewVars, files, ind, runVars>>

NextGetEnv == GetEnv

SpecGetEnv == InitGetEnv /\ [][NextGetEnv]_vars

(***************************************************************************)
(* Claims about the extractor                                              *)
(***************************************************************************)
BufferText == splitlines(text)

DelimiterLines == {i \in 1..Len(BufferText) : BufferText[i] = delimeter}

FirstDelimiter == CHOOSE i \in DelimiterLines : \A j \in DelimiterLines : i <= j

\* one opening delimiter, content after it, no closing delimiter
UnterminatedBlock ==
    Cardinality(DelimiterLines) = 1 /\ FirstDelimiter < Len(BufferText)

\* the opening delimiter is directly followed by the closing one
EmptyClosedBlock ==
    DelimiterLines # {} /\ FirstDelimiter + 1 \in DelimiterLines

\* C3: after reset_env_string on a buffer whose env block is unterminated
\* (with content) or closed but empty, requester.env_string is None.
C3_UnterminatedOrEmptyIsNull ==
    (last = "reset_env_string" /\ ~is_requester_view(settings)
        /\ (UnterminatedBlock \/ EmptyClosedBlock))
    => settings.env_string = None

\* C9: the extractor's result is the one it gives on a view with no earlier
\* settings: it depends on the buffer text and the backing file only.
C9_ExtractorIsFunctionOfText ==
    ~is_requester_view(settings) =>
        /\ last = "reset_env_string" =>
              settings.env_string = reset_env_string(NoSettings, text).env_string
        /\ last = "reset_env_file" =>
              settings.env_file = reset_env_file(NoSettings, text, file_name).env_file

\* the value the first env_file line of the buffer evaluates to, or None
Directive == dict_get(env_file_scan(BufferText, 1, EmptyDict), "env_file")

\* C10: after reset_env_file, a relative directive without backing file
\* leaves requester.env_file None, with a backing file it is resolved against
\* the file's directory, and an absolute directive is stored unchanged.
C10_RelativePathResolution ==
    (last = "reset_env_file" /\ ~is_requester_view(settings) /\ Truthy(Directive)) =>
        /\ (~isabs(Directive) /\ file_name = None) => settings.env_file = None
        /\ (~isabs(Directive) /\ file_name # None) =>
              settings.env_file = dirname(file_name) \o <<"/">> \o Directive
        /\ isabs(Directive) => settings.env_file = Directive

\* C11: on a view flagged as response view or test view, reset_env_string
\* and reset_env_file leave the stored inline source and file path as they
\* are, whatever the buffer holds.
C11_RequesterViewsAreSkipped ==
    [][((settings.response_view \/ settings.test_view)
          /\ last' \in {"reset_env_string", "reset_env_file"})
        => (/\ settings'.env_string = settings.env_string
            /\ settings'.env_file = settings.env_file)]_vars

\* a test view whose buffer holds an env block and an env_file line: both
\* resets would have stored a value
C11_Witness ==
    /\ settings.test_view /\ ~settings.response_view
    /\ last \in {"reset_env_string", "reset_env_file"}
    /\ \E k \in 1..Len(BufferText) : BufferText[k] = DirAbs
    /\ DelimiterLines # {}
    /\ settings.env_string = None
    /\ settings.env_file = None

MatchingLines == {i \in 1..Len(BufferText) : p_match(BufferText[i])}

FirstMatching == CHOOSE i \in MatchingLines : \A j \in MatchingLines : i <= j

\* C18: reset_env_file gives the result it gives on a buffer holding the
\* first env_file line alone: later matching lines have no effect, and when
\* executing the first one fails requester.env_file is None, also when a
\* later matching line would evaluate.
C18_OnlyFirstDirectiveCounts ==
    [][(last' = "reset_env_file" /\ ~settings.response_view /\ ~settings.test_view
          /\ MatchingLines # {})
        => LET first == BufferText[FirstMatching]
           IN  /\ settings'.env_file =
                      reset_env_file(settings, first \o <<"\n">>, file_name).env_file
               /\ exec_stmt(first, EmptyDict).raised => settings'.env_file = None]_vars

\* the first env_file line raises, a later one names an absolute path
C18_Witness ==
    /\ last = "reset_env_file"
    /\ ~settings.response_view /\ ~settings.test_view
    /\ Cardinality(MatchingLines) >= 2
    /\ BufferText[FirstMatching] = DirBad
    /\ \E k \in MatchingLines : BufferText[k] = DirAbs
    /\ settings.env_file = None

(***************************************************************************)
(* Claims about the evaluator                                              *)
(***************************************************************************)
\* a source is present when it is neither None nor the empty string
InlinePresent == Truthy(settings.env_string)
FilePresent == Truthy(settings.env_file)

InlineRun == exec_source(settings.env_string, new_module)
FileRun == load_source("requester.env", settings.env_file, files, EmptyDict)

InlineOk == Truthy(settings.env_string) /\ ~InlineRun.raised
FileOk == Truthy(settings.env_file) /\ ~FileRun.raised

\* C6 as stated: get_env returns None only when both sources are absent, and
\* the empty mapping when a source is present but every present one fails.
C6_NullOnlyWhenBothAbsent ==
    last = "get_env" =>
        /\ _env = NoneEnv => (~InlinePresent /\ ~FilePresent)
        /\ ((InlinePresent \/ FilePresent) /\ ~InlineOk /\ ~FileOk) => _env = EmptyDict

\* C6 amended: get_env returns None exactly when no source evaluates
\* successfully (both absent or empty, or every present one fails); it never
\* returns the empty mapping.
C6_NullIffNothingEvaluated ==
    last = "get_env" =>
        /\ _env = NoneEnv <=> (~InlineOk /\ ~FileOk)
        /\ _env # EmptyDict
        /\ _env # Unset

\* both sources present, both fail: None, with both errors reported
C6_Witness ==
    /\ last = "get_env"
    /\ InlinePresent /\ FilePresent /\ InlineRun.raised /\ FileRun.raised
    /\ _env = NoneEnv
    /\ dialogs = <<EnvBlockError, EnvFileError>>

InlineMapping == IF InlineOk THEN InlineRun.scope ELSE EmptyDict
FileMapping == IF FileOk THEN FileRun.module ELSE EmptyDict

\* the bindings of the names a source can assign
UserBindings(d) == [k \in DOMAIN d \cap Names |-> d[k]]

\* C7: the resolved environment binds the union of the keys of the inline and
\* the file namespace, each key to the file's value when the file binds it and
\* to the inline value otherwise; inline a=1, b=2 with file b=3, c=4 gives
\* a=1, b=3, c=4.
C7_FileOverridesInline ==
    (last = "get_env" /\ (InlineOk \/ FileOk)) =>
        /\ DOMAIN _env = DOMAIN InlineMapping \cup DOMAIN FileMapping
        /\ \A k \in DOMAIN _env :
              _env[k] = IF k \in DOMAIN FileMapping THEN FileMapping[k] ELSE InlineMapping[k]
        /\ (/\ settings.env_string = <<"a", "=", "1", "\n", "b", "=", "2">>
            /\ FilePresent
            /\ EnvPath \in DOMAIN files
            /\ files[EnvPath] = <<"b", "=", "3", "\n", "c", "=", "4">>)
           => UserBindings(_env) = [k \in {"a", "b", "c"} |->
                                       IF k = "a" THEN <<"1">>
                                       ELSE IF k = "b" THEN <<"3">> ELSE <<"4">>]

\* the example of the claim: b is bound by both sources
C7_Witness ==
    /\ last = "get_env"
    /\ settings.env_string = <<"a", "=", "1", "\n", "b", "=", "2">>
    /\ settings.env_file = EnvPath
    /\ EnvPath \in DOMAIN files
    /\ files[EnvPath] = <<"b", "=", "3", "\n", "c", "=", "4">>
    /\ _env # NoneEnv
    /\ _env["b"] = <<"3">>

\* C16: a source that raises does not keep the other from being evaluated:
\* when the inline source raises and the file evaluates, the EnvBlock error
\* alone is shown, the file's module is registered and get_env returns the
\* file's namespace; when the file raises and the inline source evaluates,
\* the EnvFile error alone is shown and get_env returns the inline namespace;
\* when both raise both errors are shown; the two messages differ.
C16_SourcesFailIndependently ==
    last = "get_env" =>
        /\ (InlinePresent /\ InlineRun.raised /\ FileOk)
              => /\ dialogs = <<EnvBlockError>>
                 /\ _env = FileRun.module
                 /\ dict_get(sys_modules, "requester.env") = FileRun.module
        /\ (InlineOk /\ FilePresent /\ FileRun.raised)
              => /\ dialogs = <<EnvFileError>>
                 /\ _env = InlineRun.scope
        /\ (InlinePresent /\ InlineRun.raised /\ FilePresent /\ FileRun.raised)
              => dialogs = <<EnvBlockError, EnvFileError>>
        /\ EnvBlockError # EnvFileError

\* the inline source binds a name and then raises; the file binds another
C16_Witness ==
    /\ last = "get_env"
    /\ settings.env_string = <<"a", "=", "1", "\n", "raise">>
    /\ FileOk
    /\ files[EnvPath] = <<"c", "=", "4">>
    /\ dialogs = <<EnvBlockError>>
    /\ UserBindings(_env) = [k \in {"c"} |-> <<"4">>]

(***************************************************************************)
(* Claims about the pre-flight poll chain                                  *)
(***************************************************************************)
RunTimers(i) == {t \in timers : t.fn = "_run" /\ t.run = i}
GatherTimers(i) == {t \in timers : t.fn = "gather_responses" /\ t.run = i}

TimeoutIs(n) == "timeout_env" \in DOMAIN config /\ config["timeout_env"] = n

\* the period of the pre-flight polls in ms: REFRESH_MS / REFRESH_MULTIPLIER
PollMs == REFRESH_MS \div REFRESH_MULTIPLIER

\* C2: with timeout_env = 1 the poll chain of a live thread ends at the first
\* poll whose count * 50 ms is strictly more than 1000 ms: no poll is ever
\* scheduled past it, and the poll that times out has shown the timeout
\* error, cleared the status, scheduled nothing and made no requests.
C2_TimeoutAtFirstPollPastDeadline ==
    TimeoutIs(1) =>
        \A i \in Runs :
            /\ \A t \in RunTimers(i) : (t.count - 1) * PollMs <= 1000
            /\ inv[i].timeout_at # -1 =>
                  /\ inv[i].timeout_at * PollMs > 1000
                  /\ (inv[i].timeout_at - 1) * PollMs <= 1000
                  /\ \E k \in 1..Len(dialogs) : dialogs[k] = TimeoutError
                  /\ status = <<>>
                  /\ RunTimers(i) = {} /\ GatherTimers(i) = {}
                  /\ inv[i].made = <<>>
                  /\ pool[i].phase = "none"

\* the thread has not finished its evaluation when poll 21 times out
C2_Witness ==
    /\ TimeoutIs(1)
    /\ inv[1].timeout_at = 21
    /\ inv[1].thread = "alive" /\ ~inv[1].evaluated
    /\ dialogs = <<TimeoutError>>
    /\ status = <<>>
    /\ timers = {}

\* the poll chain of invocation i is over
ChainOver(i) ==
    /\ inv[i].thread # "unstarted"
    /\ RunTimers(i) = {}
    /\ ~(frame.fn = "_run" /\ frame.run = i)

\* C4: an invocation calls make_requests at most once: once when its chain
\* ended with a poll that saw the thread dead, never when a poll timed out,
\* also when the abandoned thread ends later.
C4_MakeRequestsAtMostOnce ==
    \A i \in Runs :
        /\ Len(inv[i].made) <= 1
        /\ inv[i].timeout_at # -1 => (inv[i].made = <<>> /\ pool[i].phase = "none")
        /\ inv[i].made # <<>> => (inv[i].thread = "dead" /\ ChainOver(i))
        /\ (ChainOver(i) /\ inv[i].timeout_at = -1) => Len(inv[i].made) = 1
        /\ pool[i].phase # "none" <=> Len(inv[i].made) = 1

\* the first invocation timed out and its thread ended afterwards; the
\* second one made its requests
C4_Witness ==
    /\ inv[1].timeout_at # -1 /\ inv[1].thread = "dead" /\ inv[1].made = <<>>
    /\ inv[2].timeout_at = -1 /\ Len(inv[2].made) = 1

\* the status shows the pre-flight indicator
EnvStatus == Len(status) > 0 /\ status[1] = "RequesterEnv"

\* the status a poll with the given count leaves when it schedules the next
EnvStatusAt(count) ==
    <<"RequesterEnv", " ">> \o get_activity_indicator(count \div REFRESH_MULTIPLIER,
                                                      ACTIVITY_SPACES)

\* C17: the first poll (count 0) does not show the pre-flight indicator and
\* every later poll that goes on polling shows it; the indicator is on
\* display only while a poll that followed such a later poll is scheduled, so
\* not after a chain that found its thread dead at the first poll and not
\* after a chain has ended by a dead thread or by the timeout.
C17_PreflightIndicator ==
    /\ \A t \in timers :
          t.fn = "_run" =>
              /\ t.count >= 1
              /\ t.count = 1 => ~EnvStatus
              /\ t.count >= 2 => status = EnvStatusAt(t.count - 1)
    /\ EnvStatus => \E t \in timers : t.fn = "_run" /\ t.count >= 2
    /\ \A i \in Runs :
          (ChainOver(i) /\ \A j \in Runs : j # i => inv[j].thread = "unstarted")
              => (~EnvStatus /\ (pool[i].phase = "none" => status = <<>>))

\* the fifth poll has shown the indicator at its second position
C17_Witness ==
    /\ RunTimers(1) = {RunTimer(1, 5)}
    /\ status = <<"RequesterEnv", " ", "[", " ", "=">> \o repeat(" ", 8) \o <<"]">>

\* C19: the environment an invocation passes to make_requests is the value
\* its own evaluator thread computed.
C19_EnvOfOwnThread ==
    \A i \in Runs : inv[i].made # <<>> => inv[i].made[1] = inv[i].ret

(***************************************************************************)
(* Claims about the gatherer                                               *)
(***************************************************************************)
IsHandleResponse(c) == c.fn = "handle_response"
IsHandleResponses(c) == c.fn = "handle_responses"
IsHandleErrors(c) == c.fn = "handle_errors"

\* the ordering indices of the records, in the order given
Orderings(rs) == [k \in 1..Len(rs) |-> rs[k].ordering]

\* the records in the order in which the gatherer drained them
Drained(i) ==
    LET cs == SelectSeq(log[i], IsHandleResponse) IN [k \in 1..Len(cs) |-> cs[k].r]

\* the lists handed to handle_responses
Batches(i) ==
    LET cs == SelectSeq(log[i], IsHandleResponses) IN [k \in 1..Len(cs) |-> cs[k].rs]

\* C1: handle_responses is called at most once per batch, exactly once when
\* the batch has ended, and its list holds one record per submitted request,
\* the record of request k at position k with ordering index k - 1.
C1_BatchIsCompleteAndSorted ==
    \A i \in Runs :
        /\ Len(Batches(i)) <= 1
        /\ (pool[i].phase = "done" /\ Ended(i)) => Len(Batches(i)) = 1
        /\ \A b \in 1..Len(Batches(i)) :
              LET rs == Batches(i)[b]
                  N  == Len(pool[i].requests)
              IN  /\ Len(rs) = N
                  /\ \A k \in 1..N : rs[k].ordering = k - 1 /\ rs[k].request = pool[i].requests[k]

\* three requests completed in the order 2, 1, 0 and handed over as 0, 1, 2
C1_Witness ==
    /\ Len(request_list) = 3
    /\ Orderings(Drained(1)) = <<2, 1, 0>>
    /\ Len(Batches(1)) = 1
    /\ Orderings(Batches(1)[1]) = <<0, 1, 2>>

\* the messages shown that are not about the environment
Reports == LET IsReport(d) == d \notin {TimeoutError, EnvBlockError, EnvFileError}
           IN  SelectSeq(dialogs, IsReport)

Tokens(str) == {str[k] : k \in 1..Len(str)}

\* C5: a failing request does not abort the batch: when of three requests
\* only the second fails, handle_responses gets the three records in order
\* with only that of ordering index 1 carrying an error; handle_errors shows
\* one report naming exactly the failed requests, and none when none failed.
C5_ErrorIsolation ==
    LET i  == 1
        rs == Batches(i)[1]
        failed == {k \in 1..Len(rs) : rs[k].error # None}
    IN  IF Len(Batches(i)) = 0
        THEN Reports = <<>>
        ELSE /\ (Len(request_list) = 3
                  /\ {k \in 1..Len(Drained(i)) : Drained(i)[k].error # None} # {}
                  /\ \A k \in 1..Len(Drained(i)) :
                        Drained(i)[k].error # None <=> Drained(i)[k].ordering = 1)
                => (Orderings(rs) = <<0, 1, 2>> /\ failed = {2})
             /\ \A k \in 1..Len(rs) : \E d \in 1..Len(Drained(i)) : Drained(i)[d] = rs[k]
             /\ Len(SelectSeq(log[i], IsHandleErrors)) = 1
             /\ Len(Reports) = IF failed = {} THEN 0 ELSE 1
             /\ failed # {} =>
                   /\ \A k \in 1..Len(rs) : rs[k].request[1] \in Tokens(Reports[1]) <=> k \in failed
                   /\ Cardinality({p \in 1..Len(Reports[1]) : Reports[1][p] = "Connection Error"})
                        = Cardinality(failed)

\* of three requests only the second failed
C5_Witness ==
    /\ Len(request_list) = 3
    /\ Len(Batches(1)) = 1
    /\ {k \in 1..3 : Batches(1)[1][k].error # None} = {2}
    /\ Reports = <<<<"r2", "\n", "Connection Error">>>>

\* the request positions of the records the running tick has collected
Collected ==
    IF frame.responses = NoneList THEN {}
    ELSE {frame.responses[k].ordering + 1 : k \in 1..Len(frame.responses)}

\* C12: a gather_responses tick works on one snapshot of the pool: no request
\* that the tick handed to the activity callback as pending is among the
\* records the same tick holds as drained.
C12_TickReadsOneSnapshot ==
    frame.fn = "gather_responses" => frame.shown \cap Collected = {}

\* the step that ends a tick of invocation i
TickEnds(i) ==
    frame.fn = "gather_responses" /\ frame.run = i /\ frame.pc = "drain" /\ frame' = NoFrame

\* the step runs the batch-level callbacks, clears the status and leaves no
\* tick of invocation i scheduled
FinalTick(i) ==
    /\ Len(log'[i]) = Len(log[i]) + 2
    /\ log'[i][Len(log[i]) + 1].fn = "handle_responses"
    /\ log'[i][Len(log[i]) + 2].fn = "handle_errors"
    /\ status' = <<>>
    /\ {t \in timers' : t.run = i} = {}

\* the tick that follows the running one, with the list collected so far
NextTick(i) ==
    [fn |-> "gather_responses", run |-> i, count |-> frame.count + 1,
     responses |-> frame.responses]

\* the step schedules the next tick and calls no batch-level callback
Rescheduled(i) ==
    /\ timers' = timers \cup {NextTick(i)}
    /\ log'[i] = log[i]
    /\ status' = status

\* C13 as stated: a tick that ends with the pool done and the pool's
\* completed list empty is the final tick.
C13_FinalWhenDoneAfterDrain ==
    [][\A i \in Runs :
          (TickEnds(i) /\ pool[i].is_done /\ pool[i].responses = <<>>) => FinalTick(i)]_vars

\* C13 amended: the tick reads the done flag once, before its drain, and is
\* the final tick exactly when the flag was set at that read; otherwise it
\* schedules the next tick, also when the pool is done by the end of it.
C13_FinalIffDoneWhenRead ==
    [][\A i \in Runs :
          /\ (frame.run = i /\ frame.pc = "is_done" /\ frame'.pc = "drain")
                => frame'.is_done = pool[i].is_done
          /\ (frame.run = i /\ frame.pc = "drain")
                => (frame'.is_done = frame.is_done \/ frame' = NoFrame)
          /\ TickEnds(i) => IF frame.is_done THEN FinalTick(i) ELSE Rescheduled(i)]_vars

\* the pool finished after the tick read the flag; the drain is over
C13_Witness ==
    /\ frame.fn = "gather_responses" /\ frame.pc = "drain"
    /\ ~frame.is_done
    /\ pool[frame.run].is_done
    /\ pool[frame.run].responses = <<>>
    /\ Len(frame.responses) >= 1

IsHandleError(c) == c.fn = "handle_error"
IsPerRecord(c) == c.fn \in {"handle_response", "handle_error"}
IsBatchLevel(c) == c.fn \in {"handle_responses", "handle_errors"}

\* the records handed to handle_response in the calls of lg, in call order
DrainedIn(lg) ==
    LET cs == SelectSeq(lg, IsHandleResponse) IN [k \in 1..Len(cs) |-> cs[k].r]

\* handle_response(r, n) at position k of lg is followed by handle_error(r, n)
ErrorCallFollows(lg, k) ==
    /\ k < Len(lg)
    /\ lg[k + 1].fn = "handle_error"
    /\ lg[k + 1].r = lg[k].r
    /\ lg[k + 1].n = lg[k].n

\* the per-record calls of invocation i: handle_response with the request
\* count, then handle_error with the same arguments -- for every record, or
\* only for the records that carry an error
PerRecordCalls(i, errorOnly) ==
    \A k \in 1..Len(log[i]) :
        /\ IsHandleResponse(log[i][k]) =>
              /\ log[i][k].n = Len(request_list)
              /\ IF errorOnly /\ ~HasError(log[i][k].r)
                 THEN ~(k < Len(log[i]) /\ IsHandleError(log[i][k + 1]))
                 ELSE ErrorCallFollows(log[i], k)
        /\ IsHandleError(log[i][k]) =>
              (k > 1 /\ IsHandleResponse(log[i][k - 1]) /\ ErrorCallFollows(log[i], k - 1))

\* the calls of invocation i in order: per-record calls first, then at most
\* one handle_responses followed at once by one handle_errors with the same
\* list, which holds the drained records sorted by ordering index
CallOrder(i) ==
    LET lg == log[i]
        n  == Len(lg)
    IN  /\ \A k \in 1..n : \A l \in (k + 1)..n : IsBatchLevel(lg[k]) => ~IsPerRecord(lg[l])
        /\ Len(SelectSeq(lg, IsHandleResponses)) <= 1
        /\ Len(SelectSeq(lg, IsHandleErrors)) = Len(SelectSeq(lg, IsHandleResponses))
        /\ (pool[i].phase = "done" /\ Ended(i)) => Len(SelectSeq(lg, IsHandleResponses)) = 1
        /\ Len(SelectSeq(lg, IsHandleResponses)) = 1 =>
              /\ IsHandleResponses(lg[n - 1]) /\ IsHandleErrors(lg[n])
              /\ lg[n].rs = lg[n - 1].rs
              /\ lg[n].rs = sort_by_ordering(Drained(i))
              /\ \A k \in 1..(Len(lg[n].rs) - 1) : lg[n].rs[k].ordering <= lg[n].rs[k + 1].ordering

\* the records of invocation i that have arrived, in arrival order, are the
\* drained ones followed by those still in the pool: a step adds one arrival
\* at the end or leaves the sequence as it is, and drains at most one record
FifoDrain(i) ==
    LET a == Drained(i) \o pool[i].responses
        b == DrainedIn(log'[i]) \o pool'[i].responses
    IN  /\ \/ b = a
           \/ /\ pool'[i].pending # pool[i].pending
              /\ Len(b) = Len(a) + 1
              /\ SubSeq(b, 1, Len(a)) = a
              /\ DrainedIn(log'[i]) = Drained(i)
        /\ Len(DrainedIn(log'[i])) <= Len(Drained(i)) + 1

\* no record is drained twice
DrainedOnce(i) ==
    \A k, l \in 1..Len(Drained(i)) : Drained(i)[k].ordering = Drained(i)[l].ordering => k = l

\* C14 as stated: every completed record is drained once, in arrival order,
\* and passed to handle_response and then, when it carries an error, to
\* handle_error, each with the request count; the per-record calls precede
\* the batch-level ones, handle_responses then handle_errors, once each with
\* the same sorted list.
C14_ErrorCallbackOnErrorOnly ==
    /\ [](\A i \in Runs : PerRecordCalls(i, TRUE) /\ CallOrder(i) /\ DrainedOnce(i))
    /\ [][\A i \in Runs : FifoDrain(i)]_vars

\* C14 amended: as stated, but handle_error is called for every drained
\* record, with or without an error.
C14_ErrorCallbackOnEveryRecord ==
    /\ [](\A i \in Runs : PerRecordCalls(i, FALSE) /\ CallOrder(i) /\ DrainedOnce(i))
    /\ [][\A i \in Runs : FifoDrain(i)]_vars

\* three records drained out of request order, the first failed and the
\* others not, each passed to both per-record callbacks; the batch is over
C14_Witness ==
    /\ Orderings(Drained(1)) = <<1, 2, 0>>
    /\ HasError(Drained(1)[1]) /\ ~HasError(Drained(1)[2]) /\ ~HasError(Drained(1)[3])
    /\ Len(SelectSeq(log[1], IsHandleError)) = 3
    /\ Len(Batches(1)) = 1

\* the final tick of invocation i has run
BatchOver(i) == Len(Batches(i)) = 1

\* C15: once the pool has set its done flag, gather_responses runs a final
\* tick, and the first tick that starts with the flag set is final; after
\* the final tick no tick is scheduled or running and the status is empty;
\* a tick that is not final schedules one next tick, with the count raised
\* by one and the list collected so far, and there is never more than one
\* tick scheduled.
C15_GatherTerminates ==
    /\ pool[1].is_done ~> BatchOver(1)
    /\ [](\A i \in Runs :
            /\ Cardinality(GatherTimers(i)) <= 1
            /\ BatchOver(i) =>
                  /\ GatherTimers(i) = {}
                  /\ ~(frame.fn = "gather_responses" /\ frame.run = i)
                  /\ status = <<>>)
    /\ [][\A i \in Runs :
            /\ (TickEnds(i) /\ frame.done_at_start) => FinalTick(i)
            /\ (TickEnds(i) /\ ~FinalTick(i)) =>
                  /\ timers' \ timers = {NextTick(i)}
                  /\ frame.responses # NoneList
                  /\ \A k \in 1..Len(frame.responses) : frame.responses[k] \in
                         {Drained(i)[d] : d \in 1..Len(Drained(i))}
                  /\ Len(frame.responses) = Len(Drained(i))]_vars

\* the second tick or a later one started with the pool done and has
\* collected the records; it is about to end as the final tick
C15_Witness ==
    /\ frame.fn = "gather_responses" /\ frame.pc = "drain"
    /\ frame.count >= 1
    /\ frame.done_at_start /\ frame.is_done
    /\ pool[frame.run].responses = <<>>
    /\ Len(frame.responses) = 2

\* the callbacks of invocation i that are scheduled
Scheduled(i) == {t \in timers : t.run = i}

\* what a pre-flight poll of invocation i with count c leaves scheduled:
\* nothing, the next poll, or the first tick
AfterPoll(i, c) ==
    \/ Scheduled(i)' = {}
    \/ Scheduled(i)' = {[fn |-> "_run", run |-> i, count |-> c + 1, responses |-> NoneList]}
    \/ Scheduled(i)' = {[fn |-> "gather_responses", run |-> i, count |-> 0,
                         responses |-> NoneList]}

\* what an in-flight tick of invocation i with count c leaves scheduled:
\* nothing or the next tick
AfterTick(i, c) ==
    \/ Scheduled(i)' = {}
    \/ Scheduled(i)' = {[fn |-> "gather_responses", run |-> i, count |-> c + 1,
                         responses |-> frame.responses]}

\* the first poll of invocation i, called by run, ends in this step
FirstPollEnds(i) == frame.fn = "_run" /\ frame.run = i /\ frame' = NoFrame

\* the scheduled poll t runs in this step
PollRuns(t) == t.fn = "_run" /\ t \in timers \ timers' /\ frame = NoFrame /\ frame' = NoFrame

\* C20: an invocation has at most one poll callback scheduled, over both
\* phases together, and none while one of its callbacks runs; no pre-flight
\* poll is scheduled or running once the first gather_responses tick has
\* been scheduled; the first poll of a phase has count 0, and a poll or tick
\* with count c schedules nothing or the one callback of its phase with
\* count c + 1 or, for a pre-flight poll, the first tick with count 0;
\* nothing else schedules a callback.
C20_OneScheduledPoll ==
    /\ [](\A i \in Runs :
            /\ Cardinality(Scheduled(i)) <= 1
            /\ (frame.fn # "idle" /\ frame.run = i) => Scheduled(i) = {}
            /\ pool[i].phase # "none" =>
                  (RunTimers(i) = {} /\ ~(frame.fn = "_run" /\ frame.run = i))
            /\ (frame.fn = "_run" /\ frame.run = i) => frame.count = 0)
    /\ [][\A i \in Runs :
            /\ FirstPollEnds(i) => AfterPoll(i, 0)
            /\ \A t \in Scheduled(i) : PollRuns(t) => AfterPoll(i, t.count)
            /\ TickEnds(i) => AfterTick(i, frame.count)
            /\ Scheduled(i)' \ Scheduled(i) # {} =>
                  \/ FirstPollEnds(i)
                  \/ \E t \in Scheduled(i) : PollRuns(t)
                  \/ TickEnds(i)]_vars

\* the pre-flight chain has ended and the second in-flight tick is the one
\* callback scheduled
C20_Witness ==
    /\ inv[1].thread = "dead" /\ Len(inv[1].made) = 1
    /\ RunTimers(1) = {}
    /\ \E t \in Scheduled(1) :
          t.fn = "gather_responses" /\ t.count = 1 /\ Scheduled(1) = {t}

(***************************************************************************)
(* Claims about the indicator                                              *)
(***************************************************************************)
EqualsAt(o) == CHOOSE i \in 1..Len(o) : o[i] = "="

\* blanks between "[" and "=", and between "=" and "]"
Before(o) == EqualsAt(o) - 2
After(o) == Len(o) - EqualsAt(o) - 1

\* C8: the rendered glyph has before = tick mod width on even cycles and
\* width - (tick mod width) on odd ones, 0 <= before <= width, before + after
\* = width; for width 9 before grows over ticks 0..8, shrinks over 9..17, and
\* the glyph repeats every 2 * width ticks.
C8_IndicatorSweep ==
    ind.out # None =>
        LET t == ind.count
            w == ind.spaces
            o == ind.out
            next == get_activity_indicator(t + 1, w)
        IN  /\ o[1] = "[" /\ o[Len(o)] = "]"
            /\ Cardinality({i \in 1..Len(o) : o[i] = "="}) = 1
            /\ \A i \in 2..(Len(o) - 1) : o[i] \in {" ", "="}
            /\ Before(o) = IF (t \div w) % 2 = 0 THEN t % w ELSE w - (t % w)
            /\ 0 <= Before(o) /\ Before(o) <= w
            /\ Before(o) + After(o) = w
            /\ (w = 9 /\ t \in 0..7) => Before(next) > Before(o)
            /\ (w = 9 /\ t \in 9..16) => Before(next) < Before(o)
            /\ (w = 9 /\ t = 8) => Before(next) = 9
            /\ get_activity_indicator(t + 2 * w, w) = o

\* width 9 at tick 9: the sweep has reached the right end
C8_Witness ==
    /\ last = "get_activity_indicator"
    /\ ind.spaces = 9 /\ ind.count = 9
    /\ ind.out = <<"[">> \o repeat(" ", 9) \o <<"=", "]">>

====
